---- MODULE Spec2Model ----
(***************************************************************************)
(* State-machine model of the VRM problems of SimPEG/VRM/ProblemVRM.py:    *)
(* BaseProblemVRM, LinearVRM and LogUniformVRM.  One problem object is     *)
(* constructed, then paired, read (A, T, fields, Jvec, Jtvec), reconfigured*)
(* (indActive, xiMap, refFact, refRadius) and unpaired in any order.       *)
(*                                                                         *)
(* Real-valued collaborators (the prism kernel's arctan/log terms, the     *)
(* inducing field, the decay kernels) are integer-valued stand-ins with    *)
(* the same arguments and the same shapes, so that operators can be        *)
(* compared exactly.  Lengths are integers: cell faces (and sub-cell       *)
(* faces at every refinement level up to MaxRefFact) lie on even           *)
(* coordinates and receivers on odd ones.                                  *)
(***************************************************************************)
EXTENDS Integers, Sequences, FiniteSets, TLC

VARIABLES
    cls,        \* the problem's class: "LinearVRM" or "LogUniformVRM"
    survey,     \* prob._survey: 0 (None) or the identifier of a survey
    svProb,     \* the surveys whose _prob is the problem
    refFact,    \* prob._refFact
    refRadius,  \* prob._refRadius
    indActive,  \* prob._indActive, entry by entry as compared with True
    indActiveDtype, \* the dtype of prob._indActive: "bool" or "float"
    xiMap,      \* prob._xiMap
    A_,         \* prob._A
    AisSet,     \* prob._AisSet
    T_,         \* prob._T
    TisSet,     \* prob._TisSet
    ret         \* the last call: its name, arguments, outcome, output and
                \* the pairing and flags it started from

vars == <<cls, survey, svProb, refFact, refRadius, indActive, indActiveDtype,
          xiMap,
          A_, AisSet, T_, TisSet, ret>>

-----------------------------------------------------------------------------
(* Bounds of the model.                                                    *)

\* number of cells of the mesh (mesh.nC)
NumCells == 2

\* largest refinement factor a problem is constructed with or set to
MaxRefFact == 1

\* entries of model and data vectors range over 0..MaxVal
MaxVal == 1

-----------------------------------------------------------------------------
(* Values: None, dense matrices, lists of matrices, vectors.               *)

None == [tag |-> "None"]

RECURSIVE SumSeq(_)
SumSeq(s) == IF s = <<>> THEN 0 ELSE Head(s) + SumSeq(Tail(s))

RECURSIVE Concat(_)
Concat(ss) == IF ss = <<>> THEN <<>> ELSE Head(ss) \o Concat(Tail(ss))

\* the subsequence of s at the positions where mask is TRUE, in order
RECURSIVE Select(_, _)
Select(s, mask) ==
    IF s = <<>> THEN <<>>
    ELSE (IF Head(mask) = TRUE THEN <<Head(s)>> ELSE <<>>)
         \o Select(Tail(s), Tail(mask))

Count(mask, val) == Cardinality({i \in 1..Len(mask) : mask[i] = val})

\* a dense nr x nc matrix with entries E(i, j)
Mat(nr, nc, E(_, _)) ==
    [tag |-> "matrix", nr |-> nr, nc |-> nc,
     a |-> [i \in 1..nr |-> [j \in 1..nc |-> E(i, j)] \o <<>>] \o <<>>]

Dot(x, y) == SumSeq([i \in 1..Len(x) |-> x[i] * y[i]])

\* numpy's matrix product; the caller checks L.nc = R.nr
MatMul(L, R) ==
    Mat(L.nr, R.nc,
        LAMBDA i, j : SumSeq([k \in 1..L.nc |-> L.a[i][k] * R.a[k][j]]))

\* matrix times column vector; the caller checks M.nc = Len(x)
MatVec(M, x) == [i \in 1..M.nr |-> Dot(M.a[i], x)]

Transpose(M) == Mat(M.nc, M.nr, LAMBDA i, j : M.a[j][i])

\* M[mask, :]
SelectRows(M, mask) ==
    [tag |-> "matrix", nr |-> Count(mask, TRUE), nc |-> M.nc,
     a |-> Select(M.a, mask)]

\* M[:, mask]
SelectCols(M, mask) ==
    [tag |-> "matrix", nr |-> M.nr, nc |-> Count(mask, TRUE),
     a |-> [i \in 1..M.nr |-> Select(M.a[i], mask)]]

\* variant of np.vstack that stacks the blocks last to first
VStack_Reversed(blocks) ==
    [tag |-> "matrix",
     nr |-> SumSeq([b \in 1..Len(blocks) |-> blocks[b].nr]),
     nc |-> blocks[1].nc,
     a |-> Concat([b \in 1..Len(blocks) |-> blocks[Len(blocks) + 1 - b].a])]

\* np.vstack of a non-empty list of matrices with equal column counts
VStack(blocks) ==
    [tag |-> "matrix",
     nr |-> SumSeq([b \in 1..Len(blocks) |-> blocks[b].nr]),
     nc |-> blocks[1].nc,
     a |-> Concat([b \in 1..Len(blocks) |-> blocks[b].a])]

Vecs(n) == [1..n -> 0..MaxVal]

Zeros(n) == [i \in 1..n |-> 0]

-----------------------------------------------------------------------------
(* The mesh: NumCells cubic cells in a row along x, below z = 0.           *)

CellWidth == 2 ^ (MaxRefFact + 1)

Cells == 1..NumCells

\* mesh.gridCC[c, :]
gridCC(c) == <<((2 * c - 1) * CellWidth) \div 2, CellWidth \div 2,
               -(CellWidth \div 2)>>

\* mesh.gridH[c, :]
gridH(c) == <<CellWidth, CellWidth, CellWidth>>

\* boolean masks with one entry per mesh cell
Masks == [Cells -> BOOLEAN]

AllActive == [c \in Cells |-> TRUE]

\* boolean arrays with one entry too many or too few
WrongLengthMasks ==
    {[i \in 1..(NumCells + 1) |-> TRUE], [i \in 1..(NumCells - 1) |-> TRUE]}

AnyMasks == Masks \cup WrongLengthMasks

\* an array with its dtype; v holds the entries as compared with True
NdArray(dtype, v) == [dtype |-> dtype, v |-> v]

BoolArrays(masks) == {NdArray("bool", m) : m \in masks}

\* an array of mesh.nC entries 0.5: no entry equals True or False
FloatArray == NdArray("float", [c \in Cells |-> FALSE])

\* the refinement factor above which the constructor and the setter warn
RefFactCap == 4

\* the integers the assertions of lines 50 and 51 let through as refFact
IntArgs == (-1)..MaxRefFact

\* the inherited constructor called in line 57 with the keyword arguments:
\* construction with a refFact that is not a non-negative integer fails
BaseInitAccepts(rf) == rf > -1

\* the integers refFact is constructed with, and those written to it
RefFacts == {rf \in IntArgs : BaseInitAccepts(rf)}
AnyRefFacts == IntArgs \cup {RefFactCap + 1}

-----------------------------------------------------------------------------
(* Surveys: sources with an inducing field, receivers with locations, a    *)
(* field component, time channels and a field type; an active-time mask.   *)

\* literal tells whether fieldComp is the object of the literal 'x', 'y' or
\* 'z' itself (a plain str) or an equal string that is another object (a
\* numpy string, a unicode string)
Rx(locs, comp, times, ftype) ==
    [locs |-> locs, fieldComp |-> comp, times |-> times, fieldType |-> ftype,
     literal |-> TRUE]

RxOtherObject(locs, comp, times, ftype) ==
    [locs |-> locs, fieldComp |-> comp, times |-> times, fieldType |-> ftype,
     literal |-> FALSE]

Survey1 ==
    [srcList |-> <<
        [loc |-> <<1, 1, 1>>, h0 |-> <<0, 0, 1>>,
         rxList |-> << Rx(<< <<1, 1, 1>> >>, "z", <<1, 2>>, "h"),
                       Rx(<< <<3, 1, 1>>, <<5, 3, 1>> >>, "x", <<1>>, "dhdt") >>] >>,
     tActive |-> <<TRUE, FALSE, TRUE, TRUE>>]

Survey2 ==
    [srcList |-> <<
        [loc |-> <<3, 1, 1>>, h0 |-> <<0, 0, 1>>,
         rxList |-> << Rx(<< <<3, 3, 1>> >>, "z", <<1, 2>>, "dhdt") >>],
        [loc |-> <<7, 3, 1>>, h0 |-> <<1, 0, 1>>,
         rxList |-> << Rx(<< <<7, 1, 3>> >>, "y", <<2>>, "h") >>] >>,
     tActive |-> <<FALSE, TRUE, TRUE>>]

\* one source whose first receiver carries the tag 'z' as another object and
\* whose second receiver lies on the face between the two first cells
Survey3 ==
    [srcList |-> <<
        [loc |-> <<5, 3, 1>>, h0 |-> <<0, 1, 1>>,
         rxList |-> << RxOtherObject(<< <<1, 3, 1>> >>, "z", <<1>>, "h"),
                       Rx(<< <<CellWidth, 1, 1>> >>, "x", <<2>>, "dhdt") >>] >>,
     tActive |-> <<TRUE, TRUE>>]

Surveys == <<Survey1, Survey2, Survey3>>

SurveyIds == 1..Len(Surveys)

\* survey.nSrc
nSrc(sv) == Len(sv.srcList)

\* srcObj.nRx: the number of receiver locations of the source
nRx(srcObj) ==
    SumSeq([q \in 1..Len(srcObj.rxList) |-> Len(srcObj.rxList[q].locs)])

Sgn(x) == IF x > 0 THEN 1 ELSE IF x < 0 THEN -1 ELSE 0

\* srcObj.getH0(xyz)[i, :], the inducing field at point p
getH0(srcObj, p) ==
    <<srcObj.h0[1] * Sgn(p[1] - srcObj.loc[1]), srcObj.h0[2], srcObj.h0[3]>>

Dist2(p, q) ==
    (p[1] - q[1]) * (p[1] - q[1]) + (p[2] - q[2]) * (p[2] - q[2])
    + (p[3] - q[3]) * (p[3] - q[3])

\* srcObj._getRefineFlags(xyzc, refFact, refRadius): per cell, the number of
\* shells refRadius[1..refFact] the cell centre lies strictly inside of
getRefineFlags(srcObj, xyzc, rf, rr) ==
    [j \in 1..Len(xyzc) |->
        Cardinality({nn \in 1..rf :
                        Dist2(xyzc[j], srcObj.loc) < rr[nn] * rr[nn]})]

\* waveObj.getCharDecay(fieldType, times)
getCharDecay(ftype, times) ==
    [t \in 1..Len(times) |-> IF ftype = "h" THEN times[t] ELSE -times[t]]

\* waveObj.getLogUniformDecay(fieldType, times, chi0, dchi, tau1, tau2):
\* one row per cell, one column per time channel
getLogUniformDecay(ftype, times, chi0, dchi, tau1, tau2) ==
    Mat(Len(chi0), Len(times),
        LAMBDA c, t : chi0[c] + dchi[c] * (tau2[c] - tau1[c])
                                * (IF ftype = "h" THEN times[t] ELSE -times[t]))

-----------------------------------------------------------------------------
(* BaseProblemVRM: the geometry operator.                                  *)

FieldComps == {"x", "y", "z"}

\* the denominator of the nudge: np.min(xyzh[:, k])/1000
NudgeDivisor == 1000

\* a length d + nudge/NudgeDivisor
Length(d, nudge) == [len |-> d, nudge |-> nudge]

\* np.min(xyzh[:, k]) for the three axes, xyzh not empty
MinWidths(xyzh) ==
    [a \in 1..3 |->
        CHOOSE w \in {xyzh[j][a] : j \in 1..Len(xyzh)} :
            \A j \in 1..Len(xyzh) : w <= xyzh[j][a]]

\* variant of the upper-corner nudge that moves to the positive side
UpperDiff_Positive(d, w) == IF d = 0 THEN Length(0, w) ELSE Length(d, 0)

\* u2[np.abs(u2) < 1e-10] = -np.min(xyzh[:, 0])/1000, lengths being integers
UpperDiff(d, w) == IF d = 0 THEN Length(0, -w) ELSE Length(d, 0)

\* u1[np.abs(u1) < 1e-10] = np.min(xyzh[:, 0])/1000, lengths being integers
LowerDiff(d, w) == IF d = 0 THEN Length(0, w) ELSE Length(d, 0)

\* u1, u2, v1, v2, w1, w2 of the branch dComp is 'x' (lines 163-174)
CornerDiffsX(loc, ctr, wid, wmin) ==
    [u1 |-> LowerDiff(loc[1] - (ctr[1] - wid[1] \div 2), wmin[1]),
     u2 |-> UpperDiff(loc[1] - (ctr[1] + wid[1] \div 2), wmin[1]),
     v1 |-> LowerDiff(loc[2] - (ctr[2] - wid[2] \div 2), wmin[2]),
     v2 |-> UpperDiff(loc[2] - (ctr[2] + wid[2] \div 2), wmin[2]),
     w1 |-> LowerDiff(loc[3] - (ctr[3] - wid[3] \div 2), wmin[3]),
     w2 |-> UpperDiff(loc[3] - (ctr[3] + wid[3] \div 2), wmin[3])]

\* the same of the branch dComp is 'y' (lines 214-225)
CornerDiffsY(loc, ctr, wid, wmin) ==
    [u1 |-> LowerDiff(loc[1] - (ctr[1] - wid[1] \div 2), wmin[1]),
     u2 |-> UpperDiff(loc[1] - (ctr[1] + wid[1] \div 2), wmin[1]),
     v1 |-> LowerDiff(loc[2] - (ctr[2] - wid[2] \div 2), wmin[2]),
     v2 |-> UpperDiff(loc[2] - (ctr[2] + wid[2] \div 2), wmin[2]),
     w1 |-> LowerDiff(loc[3] - (ctr[3] - wid[3] \div 2), wmin[3]),
     w2 |-> UpperDiff(loc[3] - (ctr[3] + wid[3] \div 2), wmin[3])]

\* the same of the branch dComp is 'z' (lines 265-276)
CornerDiffsZ(loc, ctr, wid, wmin) ==
    [u1 |-> LowerDiff(loc[1] - (ctr[1] - wid[1] \div 2), wmin[1]),
     u2 |-> UpperDiff(loc[1] - (ctr[1] + wid[1] \div 2), wmin[1]),
     v1 |-> LowerDiff(loc[2] - (ctr[2] - wid[2] \div 2), wmin[2]),
     v2 |-> UpperDiff(loc[2] - (ctr[2] + wid[2] \div 2), wmin[2]),
     w1 |-> LowerDiff(loc[3] - (ctr[3] - wid[3] \div 2), wmin[3]),
     w2 |-> UpperDiff(loc[3] - (ctr[3] + wid[3] \div 2), wmin[3])]

CornerDiffs(comp, loc, ctr, wid, wmin) ==
    IF comp = "x" THEN CornerDiffsX(loc, ctr, wid, wmin)
    ELSE IF comp = "y" THEN CornerDiffsY(loc, ctr, wid, wmin)
    ELSE CornerDiffsZ(loc, ctr, wid, wmin)

\* sign * np.arctan((a*b)/(c*np.sqrt(x**2+y**2+z**2)+eps))
Atan(sign, a, b, c, x, y, z) ==
    [sign |-> sign, num |-> <<a, b>>, den |-> c, rad |-> <<x, y, z>>]

\* the eight arctan terms of Gxx (lines 176-185)
GxxTerms(D) ==
    << Atan( 1, D.v1, D.w1, D.u1, D.u1, D.v1, D.w1),
       Atan(-1, D.v1, D.w1, D.u2, D.u2, D.v1, D.w1),
       Atan( 1, D.v2, D.w1, D.u2, D.u2, D.v2, D.w1),
       Atan(-1, D.v2, D.w1, D.u1, D.u1, D.v2, D.w1),
       Atan( 1, D.v2, D.w2, D.u1, D.u1, D.v2, D.w2),
       Atan(-1, D.v1, D.w2, D.u1, D.u1, D.v1, D.w2),
       Atan( 1, D.v1, D.w2, D.u2, D.u2, D.v1, D.w2),
       Atan(-1, D.v2, D.w2, D.u2, D.u2, D.v2, D.w2) >>

\* the eight arctan terms of Gyy (lines 238-247)
GyyTerms(D) ==
    << Atan( 1, D.u1, D.w1, D.v1, D.u1, D.v1, D.w1),
       Atan(-1, D.u2, D.w1, D.v1, D.u2, D.v1, D.w1),
       Atan( 1, D.u2, D.w1, D.v2, D.u2, D.v2, D.w1),
       Atan(-1, D.u1, D.w1, D.v2, D.u1, D.v2, D.w1),
       Atan( 1, D.u1, D.w2, D.v2, D.u1, D.v2, D.w2),
       Atan(-1, D.u1, D.w2, D.v1, D.u1, D.v1, D.w2),
       Atan( 1, D.u2, D.w2, D.v1, D.u2, D.v1, D.w2),
       Atan(-1, D.u2, D.w2, D.v2, D.u2, D.v2, D.w2) >>

\* variant of Gzz whose second eight terms carry the signs of Gyy
GzzTerms_SecondHalfPositive(D) ==
    << Atan(-1, D.v1, D.w1, D.u1, D.u1, D.v1, D.w1),
       Atan( 1, D.v1, D.w1, D.u2, D.u2, D.v1, D.w1),
       Atan(-1, D.v2, D.w1, D.u2, D.u2, D.v2, D.w1),
       Atan( 1, D.v2, D.w1, D.u1, D.u1, D.v2, D.w1),
       Atan(-1, D.v2, D.w2, D.u1, D.u1, D.v2, D.w2),
       Atan( 1, D.v1, D.w2, D.u1, D.u1, D.v1, D.w2),
       Atan(-1, D.v1, D.w2, D.u2, D.u2, D.v1, D.w2),
       Atan( 1, D.v2, D.w2, D.u2, D.u2, D.v2, D.w2),
       Atan( 1, D.u1, D.w1, D.v1, D.u1, D.v1, D.w1),
       Atan(-1, D.u2, D.w1, D.v1, D.u2, D.v1, D.w1),
       Atan( 1, D.u2, D.w1, D.v2, D.u2, D.v2, D.w1),
       Atan(-1, D.u1, D.w1, D.v2, D.u1, D.v2, D.w1),
       Atan( 1, D.u1, D.w2, D.v2, D.u1, D.v2, D.w2),
       Atan(-1, D.u1, D.w2, D.v1, D.u1, D.v1, D.w2),
       Atan( 1, D.u2, D.w2, D.v1, D.u2, D.v1, D.w2),
       Atan(-1, D.u2, D.w2, D.v2, D.u2, D.v2, D.w2) >>

\* the sixteen arctan terms of Gzz (lines 300-321)
GzzTerms(D) ==
    << Atan(-1, D.v1, D.w1, D.u1, D.u1, D.v1, D.w1),
       Atan( 1, D.v1, D.w1, D.u2, D.u2, D.v1, D.w1),
       Atan(-1, D.v2, D.w1, D.u2, D.u2, D.v2, D.w1),
       Atan( 1, D.v2, D.w1, D.u1, D.u1, D.v2, D.w1),
       Atan(-1, D.v2, D.w2, D.u1, D.u1, D.v2, D.w2),
       Atan( 1, D.v1, D.w2, D.u1, D.u1, D.v1, D.w2),
       Atan(-1, D.v1, D.w2, D.u2, D.u2, D.v1, D.w2),
       Atan( 1, D.v2, D.w2, D.u2, D.u2, D.v2, D.w2),
       Atan(-1, D.u1, D.w1, D.v1, D.u1, D.v1, D.w1),
       Atan( 1, D.u2, D.w1, D.v1, D.u2, D.v1, D.w1),
       Atan(-1, D.u2, D.w1, D.v2, D.u2, D.v2, D.w1),
       Atan( 1, D.u1, D.w1, D.v2, D.u1, D.v2, D.w1),
       Atan(-1, D.u1, D.w2, D.v2, D.u1, D.v2, D.w2),
       Atan( 1, D.u1, D.w2, D.v1, D.u1, D.v1, D.w2),
       Atan(-1, D.u2, D.w2, D.v1, D.u2, D.v1, D.w2),
       Atan( 1, D.u2, D.w2, D.v2, D.u2, D.v2, D.w2) >>

\* the arctan terms of the self term of the branch taken
SelfTerms(comp, D) ==
    IF comp = "x" THEN GxxTerms(D)
    ELSE IF comp = "y" THEN GyyTerms(D)
    ELSE GzzTerms(D)

\* an integer that orders lengths as their values do: a nudge is smaller than
\* every length of the grid
Embed(x) == 2 * x.len + Sgn(x.nudge)

\* the three sensitivities of one receiver point and component to one cell,
\* an integer stand-in for the arctan and log sums, from the corner
\* differences D
PrismKernel(comp, D) ==
    LET u1 == Embed(D.u1)
        u2 == Embed(D.u2)
        v1 == Embed(D.v1)
        v2 == Embed(D.v2)
        w1 == Embed(D.w1)
        w2 == Embed(D.w2)
        d  == <<(u1 + u2) \div 2, (v1 + v2) \div 2, (w1 + w2) \div 2>>
        r2 == d[1] * d[1] + d[2] * d[2] + d[3] * d[3]
        k  == IF comp = "x" THEN 1 ELSE IF comp = "y" THEN 2 ELSE 3
    IN  [i \in 1..3 |-> 3 * d[i] * d[k] - (IF i = k THEN r2 ELSE 0)
                        + (u1 - u2) * d[i]]

\* dComp is 'x': the tag is the object of the literal
TagIs(rxObj, lit) == rxObj.fieldComp = lit /\ rxObj.literal

\* the (receiver, location) pairs of a source that write a row of G, in
\* receiver order and then location order
GeometryRows(srcObj) ==
    Concat([q \in 1..Len(srcObj.rxList) |->
              IF \E lit \in FieldComps : TagIs(srcObj.rxList[q], lit)
              THEN [r \in 1..Len(srcObj.rxList[q].locs) |->
                      [comp |-> srcObj.rxList[q].fieldComp,
                       loc  |-> srcObj.rxList[q].locs[r]]]
              ELSE <<>>])

\* _getGeometryMatrix raises: np.min over the widths of an empty cell array
\* is evaluated for every receiver location
GeometryFails(xyzc, srcObj) ==
    Len(xyzc) = 0 /\ GeometryRows(srcObj) # <<>>

\* G of K rows, filled from its first row on by the pairs in rows
GeometryFill(xyzc, xyzh, rows, K, N, wmin) ==
    Mat(K, 3 * N,
        LAMBDA i, j :
            IF i <= Len(rows)
            THEN PrismKernel(rows[i].comp,
                             CornerDiffs(rows[i].comp, rows[i].loc,
                                         xyzc[((j - 1) % N) + 1],
                                         xyzh[((j - 1) % N) + 1],
                                         wmin))[((j - 1) \div N) + 1]
            ELSE 0)

\* _getGeometryMatrix(xyzc, xyzh, pp): K x 3N, the x-, y- and z-magnetization
\* sensitivities of the N cells side by side
getGeometryMatrix(xyzc, xyzh, srcObj) ==
    GeometryFill(xyzc, xyzh, GeometryRows(srcObj), nRx(srcObj), Len(xyzc),
                 MinWidths(xyzh))

\* three diagonal matrices stacked
H0Stack(xyz, srcObj, N) ==
    Mat(3 * N, N,
        LAMBDA i, j :
            IF ((i - 1) % N) + 1 = j
            THEN getH0(srcObj, xyz[j])[((i - 1) \div N) + 1]
            ELSE 0)

\* _getH0matrix(xyz, pp): 3N x N
getH0matrix(xyz, srcObj) == H0Stack(xyz, srcObj, Len(xyz))

\* G*H0 for H0 a stack of three diagonal matrices: the product has one term
\* per component, the only non-zeros of a column of H0
DiagStackMul(G, H0, N) ==
    Mat(G.nr, N,
        LAMBDA i, j : G.a[i][j] * H0.a[j][j]
                      + G.a[i][N + j] * H0.a[N + j][j]
                      + G.a[i][2 * N + j] * H0.a[2 * N + j][j])

\* G*H0 on the cells xyzc, xyzh for one source
GeometryH0(xyzc, xyzh, srcObj) ==
    DiagStackMul(getGeometryMatrix(xyzc, xyzh, srcObj),
                 getH0matrix(xyzc, srcObj), Len(xyzc))

Pow2(q) == 2 ^ q

\* variant of the offset grid that moves along the three axes together
SubOffsets_Diagonal(n) ==
    [t \in 1..(n * n * n) |->
        <<2 * ((t - 1) % n) + 1,
          2 * ((t - 1) % n) + 1,
          2 * ((t - 1) % n) + 1>>] \o <<>>

\* the n^3 offsets (k - 1/2) of mkvc(meshgrid(...)), doubled: y fastest,
\* then x, then z
SubOffsets(n) ==
    [t \in 1..(n * n * n) |->
        <<2 * (((t - 1) \div n) % n) + 1,
          2 * ((t - 1) % n) + 1,
          2 * ((t - 1) \div (n * n)) + 1>>] \o <<>>

\* np.kron(xyzh_sub/n, np.ones((n**3, 1)))
SubWidths(hs, n, n3) ==
    [t \in 1..(Len(hs) * n3) |->
        [k \in 1..3 |-> hs[((t - 1) \div n3) + 1][k] \div n] \o <<>>] \o <<>>

\* corners of the flagged cells plus xyzh_sub*nxyz_sub
SubCenters(cs, hs, n, n3, off) ==
    [t \in 1..(Len(cs) * n3) |->
        [k \in 1..3 |->
            (cs[((t - 1) \div n3) + 1][k] - hs[((t - 1) \div n3) + 1][k] \div 2)
            + ((hs[((t - 1) \div n3) + 1][k] \div n)
               * off[((t - 1) % n3) + 1][k]) \div 2] \o <<>>] \o <<>>

\* variant of the collapse that sums every m-th sub-cell column
Collapse_Strided(GH, m, n3) ==
    Mat(GH.nr, m,
        LAMBDA i, j : SumSeq([t \in 1..n3 |-> GH.a[i][(t - 1) * m + j]]))

\* (G*H0) * sp.kron(sp.diags(np.ones(m)), np.ones((n**3, 1)))
Collapse(GH, m, n3) ==
    Mat(GH.nr, m,
        LAMBDA i, j : SumSeq([t \in 1..n3 |-> GH.a[i][(j - 1) * n3 + t]]))

\* the refined columns of the cells cs, hs split n times per axis
SubsetColumns(cs, hs, srcObj, n, n3) ==
    Collapse(GeometryH0(SubCenters(cs, hs, n, n3, SubOffsets(n)),
                        SubWidths(hs, n, n3), srcObj),
             Len(cs), n3)

\* refFlag == qq
LevelMask(refFlag, qq) == [j \in 1..Len(refFlag) |-> refFlag[j] = qq] \o <<>>

\* _getSubsetAcolumns(xyzc, xyzh, pp, qq, refFlag) for a level qq with at
\* least one flagged cell: one collapsed column per flagged cell
getSubsetAcolumns(xyzc, xyzh, srcObj, qq, refFlag) ==
    SubsetColumns(Select(xyzc, LevelMask(refFlag, qq)),
                  Select(xyzh, LevelMask(refFlag, qq)),
                  srcObj, Pow2(qq), Pow2(qq) * Pow2(qq) * Pow2(qq))

\* A[pp][:, mask] = cols
AssignCols(M, mask, cols) ==
    Mat(M.nr, M.nc,
        LAMBDA i, j :
            IF mask[j]
            THEN cols.a[i][Count(SubSeq(mask, 1, j), TRUE)]
            ELSE M.a[i][j])

\* the loop over qq of lines 355-357, from level qq on
RECURSIVE RefineBlock(_, _, _, _, _, _, _)
RefineBlock(blk, xyzc, xyzh, srcObj, refFlag, qq, rf) ==
    IF qq > rf THEN blk
    ELSE RefineBlock(
            AssignCols(blk, LevelMask(refFlag, qq),
                       getSubsetAcolumns(xyzc, xyzh, srcObj, qq, refFlag)),
            xyzc, xyzh, srcObj, refFlag, qq + 1, rf)

\* mesh.gridCC[indActive, :] and mesh.gridH[indActive, :]
ActiveCC(ia) == Select([c \in Cells |-> gridCC(c)], ia)
ActiveH(ia) == Select([c \in Cells |-> gridH(c)], ia)

\* variant of the loop body that reads the first radius whatever refFact is
BlockError_ReadsRadius(xyzc, srcObj, rf, rr) ==
    IF GeometryFails(xyzc, srcObj) THEN "ValueError"
    ELSE IF Len(rr) < 1 \/ Len(rr) < rf THEN "IndexError"
    ELSE IF rf > 0
            /\ GeometryRows(srcObj) # <<>>
            /\ \E qq \in 1..rf :
                  \A j \in 1..Len(xyzc) :
                     getRefineFlags(srcObj, xyzc, rf, rr)[j] # qq
         THEN "ValueError"
    ELSE "ok"

\* the exception the body of the loop over sources raises for one source,
\* or "ok"
BlockError(xyzc, srcObj, rf, rr) ==
    IF GeometryFails(xyzc, srcObj) THEN "ValueError"
    ELSE IF rf > 0 /\ Len(rr) < rf THEN "IndexError"
    ELSE IF rf > 0
            /\ GeometryRows(srcObj) # <<>>
            /\ \E qq \in 1..rf :
                  \A j \in 1..Len(xyzc) :
                     getRefineFlags(srcObj, xyzc, rf, rr)[j] # qq
         THEN "ValueError"
    ELSE "ok"

RECURSIVE FirstError(_)
FirstError(errs) ==
    IF errs = <<>> THEN "ok"
    ELSE IF Head(errs) # "ok" THEN Head(errs)
    ELSE FirstError(Tail(errs))

\* the exception _getAMatricies ends with, or "ok"
AMatriciesError(sv, ia, rf, rr) ==
    IF Len(ia) # NumCells THEN "IndexError"
    ELSE FirstError([pp \in 1..nSrc(sv) |->
                       BlockError(ActiveCC(ia), sv.srcList[pp], rf, rr)])

\* variant of the block of one source that skips the refinement loop
SourceBlock_Unrefined(xyzc, xyzh, srcObj, rf, rr) ==
    GeometryH0(xyzc, xyzh, srcObj)

\* the block of one source: G*H0 with the flagged columns replaced
SourceBlock(xyzc, xyzh, srcObj, rf, rr) ==
    IF rf > 0
    THEN RefineBlock(GeometryH0(xyzc, xyzh, srcObj), xyzc, xyzh, srcObj,
                     getRefineFlags(srcObj, xyzc, rf, rr) \o <<>>, 1, rf)
    ELSE GeometryH0(xyzc, xyzh, srcObj)

\* _getAMatricies(), when it raises nothing: one block per source
getAMatricies(sv, ia, rf, rr) ==
    [pp \in 1..nSrc(sv) |->
        SourceBlock(ActiveCC(ia), ActiveH(ia), sv.srcList[pp], rf, rr)] \o <<>>

-----------------------------------------------------------------------------
(* Parameter maps: linear maps with matrix P; xiMap * m is P m.            *)

IdentityMap(n) ==
    [tag |-> "map", P |-> Mat(n, n, LAMBDA i, j : IF i = j THEN 1 ELSE 0)]

\* one model value spread over n cells
SurjectMap(n) == [tag |-> "map", P |-> Mat(n, 1, LAMBDA i, j : 1)]

XiMaps == {IdentityMap(n) : n \in 1..NumCells} \cup {SurjectMap(NumCells)}

\* the refinement radii a problem is given: ascending, at most MaxRefFact
RadiusVals == {3, 6}

RadiiSet ==
    {rr \in UNION {[1..n -> RadiusVals] : n \in 0..MaxRefFact} :
        \A i \in 1..(Len(rr) - 1) : rr[i] < rr[i + 1]}

\* 1.25*np.mean(min cell widths)*np.arange(1, refFact+1)
DefaultRadii(rf) == [i \in 1..rf |-> ((5 * CellWidth) \div 4) * i]

AllRadii == RadiiSet \cup {DefaultRadii(rf) : rf \in 0..MaxRefFact}

-----------------------------------------------------------------------------
(* Outcomes of a call.                                                     *)

MsgA == "CREATING A MATRIX"
MsgT == "CREATING T MATRIX"
MsgRefFact == "Refinement factor no longer matches length of refinement radii array"
MsgRefFactLarge == "Refinement factor larger than 4 may result in computations which exceed memory limits"

\* x is among the lines a call wrote
Has(printed, x) == \E i \in 1..Len(printed) : printed[i] = x

Vector(x) == [tag |-> "vector", v |-> x]

List(items) == [tag |-> "list", items |-> items]

ispaired == survey # 0

\* what the call started from: paired or not, the two flags, an A stored or not
Pre == [paired |-> ispaired, AisSet |-> AisSet, TisSet |-> TisSet,
        hasA |-> A_ # None]

Ret(op, args, status, printed, value) ==
    [op |-> op, args |-> args, status |-> status, printed |-> printed,
     value |-> value, pre |-> Pre]

-----------------------------------------------------------------------------
(* The property A (LinearVRM lines 453-480, LogUniformVRM lines 647-674)   *)
(* and the property T (lines 482-531), as the outcome of one access from   *)
(* the current state: status, output, returned value and the stored        *)
(* operator and flag the access leaves behind.                             *)

\* _getAMatricies() for every configuration of the model, computed once:
\* the exception it raises ("ok" for none) and the blocks it returns
Assembled ==
    [sv \in SurveyIds, ia \in AnyMasks, rf \in AnyRefFacts, rr \in AllRadii |->
        IF AMatriciesError(Surveys[sv], ia, rf, rr) # "ok"
        THEN [err |-> AMatriciesError(Surveys[sv], ia, rf, rr), blocks |-> <<>>]
        ELSE [err |-> "ok", blocks |-> getAMatricies(Surveys[sv], ia, rf, rr)]]
    @@ <<>>

\* np.vstack(blocks) for LinearVRM, the list itself for LogUniformVRM
StoredA(blocks) == IF cls = "LinearVRM" THEN VStack(blocks) ELSE List(blocks)

\* variant of the assembling branch that sets the flag before it assembles
BuildA_FlagFirst(asm) ==
    IF asm.err # "ok"
    THEN [status |-> asm.err, printed |-> <<MsgA>>, value |-> None,
          A |-> None, set |-> TRUE]
    ELSE [status |-> "ok", printed |-> <<MsgA>>, value |-> StoredA(asm.blocks),
          A |-> StoredA(asm.blocks), set |-> TRUE]

\* the assembling branch of A, given _getAMatricies' outcome
BuildA(asm) ==
    IF asm.err # "ok"
    THEN [status |-> asm.err, printed |-> <<MsgA>>, value |-> None,
          A |-> None, set |-> FALSE]
    ELSE [status |-> "ok", printed |-> <<MsgA>>, value |-> StoredA(asm.blocks),
          A |-> StoredA(asm.blocks), set |-> TRUE]

\* self._getAMatricies() in the current state: a float array is no index
AMatricies ==
    IF indActiveDtype # "bool" THEN [err |-> "IndexError", blocks |-> <<>>]
    ELSE Assembled[survey, indActive, refFact, refRadius]

\* variant of A whose getter ignores _AisSet and assembles on every access
GetA_NoCache ==
    IF ~ispaired
    THEN [status |-> "AssertionError", printed |-> <<>>, value |-> None,
          A |-> A_, set |-> AisSet]
    ELSE BuildA(AMatricies)

GetA ==
    IF AisSet = FALSE
    THEN IF ~ispaired
         THEN [status |-> "AssertionError", printed |-> <<>>, value |-> None,
               A |-> A_, set |-> AisSet]
         ELSE BuildA(AMatricies)
    ELSE [status |-> "ok", printed |-> <<>>, value |-> A_, A |-> A_, set |-> AisSet]

\* sp.kron(I, eta): the decay of one receiver, once per location
DecayBlock(rxObj) ==
    LET nLoc == Len(rxObj.locs)
        eta  == getCharDecay(rxObj.fieldType, rxObj.times)
        nT   == Len(eta)
    IN  Mat(nLoc * nT, nLoc,
            LAMBDA i, j : IF ((i - 1) \div nT) + 1 = j
                          THEN eta[((i - 1) % nT) + 1] ELSE 0)

RECURSIVE BlockDiag(_)
BlockDiag(blocks) ==
    IF blocks = <<>> THEN Mat(0, 0, LAMBDA i, j : 0)
    ELSE LET B == Head(blocks)
             R == BlockDiag(Tail(blocks))
         IN  Mat(B.nr + R.nr, B.nc + R.nc,
                 LAMBDA i, j :
                     IF i <= B.nr /\ j <= B.nc THEN B.a[i][j]
                     ELSE IF i > B.nr /\ j > B.nc THEN R.a[i - B.nr][j - B.nc]
                     ELSE 0)

\* variant of T whose blocks are laid out last receiver first
AssembleT_Reversed(sv) ==
    BlockDiag(Concat([pp \in 1..nSrc(sv) |->
                        [qq \in 1..Len(sv.srcList[nSrc(sv) + 1 - pp].rxList) |->
                            DecayBlock(sv.srcList[nSrc(sv) + 1 - pp].rxList[
                                Len(sv.srcList[nSrc(sv) + 1 - pp].rxList) + 1 - qq])]]))

\* the decay operator of a survey: one block per source and receiver
AssembleT(sv) ==
    BlockDiag(Concat([pp \in 1..nSrc(sv) |->
                        [qq \in 1..Len(sv.srcList[pp].rxList) |->
                            DecayBlock(sv.srcList[pp].rxList[qq])]]))

GetT ==
    IF TisSet = FALSE
    THEN IF ~ispaired
         THEN [status |-> "AssertionError", printed |-> <<>>, value |-> None,
               T |-> T_, set |-> TisSet]
         ELSE LET built == AssembleT(Surveys[survey])
              IN  [status |-> "ok", printed |-> <<MsgT>>, value |-> built,
                   T |-> built, set |-> TRUE]
    ELSE [status |-> "ok", printed |-> <<>>, value |-> T_, T |-> T_, set |-> TisSet]

-----------------------------------------------------------------------------
(* Construction: BaseProblemVRM.__init__ and LinearVRM/LogUniformVRM       *)
(* .__init__ with their assertions; nothing is assembled.                  *)

Init ==
    /\ cls \in {"LinearVRM", "LogUniformVRM"}
    /\ survey = 0
    /\ svProb = {}
    /\ refFact \in 0..MaxRefFact
    /\ refRadius \in {DefaultRadii(refFact)} \cup RadiiSet
    /\ Len(refRadius) >= refFact
    /\ indActive \in Masks
    /\ indActiveDtype = "bool"
    /\ xiMap = IdentityMap(Count(indActive, TRUE))
    /\ A_ = None
    /\ AisSet = FALSE
    /\ T_ = None
    /\ TisSet = FALSE
    /\ ret = Ret("init", <<>>, "ok", <<>>, None)

-----------------------------------------------------------------------------
(* Pairing.                                                                *)

\* prob.pair(d)
pair(d) ==
    /\ ~ispaired
    /\ d \notin svProb
    /\ survey' = d
    /\ svProb' = svProb \cup {d}
    /\ ret' = Ret("pair", <<d>>, "ok", <<>>, None)
    /\ UNCHANGED <<cls, refFact, refRadius, indActive, indActiveDtype, xiMap,
                   A_, AisSet, T_, TisSet>>

\* Problem.BaseProblem.unpair, inherited by LogUniformVRM
BaseUnpair ==
    /\ survey' = 0
    /\ svProb' = svProb \ {survey}
    /\ UNCHANGED <<A_, AisSet, T_, TisSet>>

\* variant of LinearVRM.unpair that drops the binding and keeps the operators
LinearUnpair_KeepOperators ==
    /\ survey' = 0
    /\ svProb' = svProb \ {survey}
    /\ UNCHANGED <<A_, AisSet, T_, TisSet>>

\* LinearVRM.unpair past its guard
LinearUnpair ==
    /\ survey' = 0
    /\ svProb' = svProb \ {survey}
    /\ A_' = None
    /\ T_' = None
    /\ AisSet' = FALSE
    /\ TisSet' = FALSE

unpair ==
    /\ IF ~ispaired
       THEN UNCHANGED <<survey, svProb, A_, AisSet, T_, TisSet>>
       ELSE IF cls = "LinearVRM" THEN LinearUnpair ELSE BaseUnpair
    /\ ret' = Ret("unpair", <<>>, "ok", <<>>, None)
    /\ UNCHANGED <<cls, refFact, refRadius, indActive, indActiveDtype, xiMap>>

-----------------------------------------------------------------------------
(* Configuration writes.                                                   *)

\* list(x).count(True) + list(x).count(False) == len(x)
IsBooleanArray(x) ==
    x.dtype = "bool" /\ Count(x.v, TRUE) + Count(x.v, FALSE) = Len(x.v)

\* the value the indActive setter validates
indActiveChecked(Vec) == NdArray(indActiveDtype, indActive)

\* variant of the indActive setter that leaves _AisSet as it is
set_indActive_KeepFlag(Vec) ==
    /\ indActive' = Vec.v
    /\ indActiveDtype' = Vec.dtype
    /\ ret' = Ret("indActive", <<Vec>>, "ok", <<>>, None)
    /\ UNCHANGED <<cls, survey, svProb, refFact, refRadius, xiMap,
                   A_, AisSet, T_, TisSet>>

\* prob.indActive = Vec
set_indActive(Vec) ==
    IF IsBooleanArray(indActiveChecked(Vec))
    THEN /\ AisSet' = FALSE
         /\ indActive' = Vec.v
         /\ indActiveDtype' = Vec.dtype
         /\ ret' = Ret("indActive", <<Vec>>, "ok", <<>>, None)
         /\ UNCHANGED <<cls, survey, svProb, refFact, refRadius, xiMap,
                        A_, T_, TisSet>>
    ELSE /\ ret' = Ret("indActive", <<Vec>>, "AssertionError", <<>>, None)
         /\ UNCHANGED <<cls, survey, svProb, refFact, refRadius, indActive, indActiveDtype,
                        xiMap, A_, AisSet, T_, TisSet>>

\* variant of the xiMap setter that clears _TisSet as well
set_xiMap_ClearT(mappingObj) ==
    /\ AisSet' = FALSE
    /\ TisSet' = FALSE
    /\ xiMap' = mappingObj
    /\ ret' = Ret("xiMap", <<mappingObj>>, "ok", <<>>, None)
    /\ UNCHANGED <<cls, survey, svProb, refFact, refRadius, indActive, indActiveDtype,
                   A_, T_>>

\* prob.xiMap = mappingObj
set_xiMap(mappingObj) ==
    /\ AisSet' = FALSE
    /\ xiMap' = mappingObj
    /\ ret' = Ret("xiMap", <<mappingObj>>, "ok", <<>>, None)
    /\ UNCHANGED <<cls, survey, svProb, refFact, refRadius, indActive, indActiveDtype,
                   A_, T_, TisSet>>

\* variant of the refFact setter that accepts every integer
set_refFact_AnyInteger(Val) ==
    /\ refFact' = Val
    /\ ret' = Ret("refFact", <<Val>>, "ok",
                  (IF Val # Len(refRadius) THEN <<MsgRefFact>> ELSE <<>>)
                    \o (IF Val > RefFactCap THEN <<MsgRefFactLarge>>
                        ELSE <<>>),
                  None)
    /\ UNCHANGED <<cls, survey, svProb, refRadius, indActive, indActiveDtype, xiMap,
                   A_, AisSet, T_, TisSet>>

\* prob.refFact = Val
set_refFact(Val) ==
    IF Val > -1
    THEN /\ refFact' = Val
         /\ ret' = Ret("refFact", <<Val>>, "ok",
                       (IF Val # Len(refRadius) THEN <<MsgRefFact>> ELSE <<>>)
                         \o (IF Val > RefFactCap THEN <<MsgRefFactLarge>>
                             ELSE <<>>),
                       None)
         /\ UNCHANGED <<cls, survey, svProb, refRadius, indActive, indActiveDtype, xiMap,
                        A_, AisSet, T_, TisSet>>
    ELSE /\ ret' = Ret("refFact", <<Val>>, "AssertionError", <<>>, None)
         /\ UNCHANGED <<cls, survey, svProb, refFact, refRadius, indActive, indActiveDtype,
                        xiMap, A_, AisSet, T_, TisSet>>

\* prob.refRadius = Array
set_refRadius(Array) ==
    /\ refRadius' = Array
    /\ ret' = Ret("refRadius", <<Array>>, "ok",
                  IF refFact # Len(Array) THEN <<MsgRefFact>> ELSE <<>>, None)
    /\ UNCHANGED <<cls, survey, svProb, refFact, indActive, indActiveDtype, xiMap,
                   A_, AisSet, T_, TisSet>>

-----------------------------------------------------------------------------
(* Reads of the operators.                                                 *)

\* the step of an access to A with outcome g
ReadA(g) ==
    /\ A_' = g.A
    /\ AisSet' = g.set
    /\ ret' = Ret("A", <<>>, g.status, g.printed, g.value)
    /\ UNCHANGED <<cls, survey, svProb, refFact, refRadius, indActive, indActiveDtype,
                   xiMap, T_, TisSet>>

\* prob.A
AccessA == ReadA(GetA)

\* the step of an access to T with outcome g
ReadT(g) ==
    /\ T_' = g.T
    /\ TisSet' = g.set
    /\ ret' = Ret("T", <<>>, g.status, g.printed, g.value)
    /\ UNCHANGED <<cls, survey, svProb, refFact, refRadius, indActive, indActiveDtype,
                   xiMap, A_, AisSet>>

\* prob.T (LinearVRM)
AccessT == cls = "LinearVRM" /\ ReadT(GetT)

-----------------------------------------------------------------------------
(* LinearVRM: fields, Jvec, Jtvec.                                         *)

VecMat(x, M) ==
    [j \in 1..M.nc |-> SumSeq([i \in 1..M.nr |-> x[i] * M.a[i][j]])]

\* variant of fields that applies only the active time rows of T
fieldsValue_ActiveRows(xm, A, T, m) ==
    MatVec(SelectRows(T, Surveys[survey].tActive),
           MatVec(A, MatVec(xm.P, m)))

\* sp.coo_matrix.dot(self.T, self.A*m) with m = xiMap * m
fieldsValue(xm, A, T, m) == MatVec(T, MatVec(A, MatVec(xm.P, m)))

\* the leading k rows of a matrix
HeadRows(M, k) == Mat(k, M.nc, LAMBDA i, j : M.a[i][j])

\* variant of Jvec that takes the leading rows of T, as many as are active
JvecValue_HeadRows(xm, A, T, tActive, v) ==
    MatVec(HeadRows(T, Count(tActive, TRUE)), MatVec(A, MatVec(xm.P, v)))

\* T[tActive, :] . (A . (P . v))
JvecValue(xm, A, T, tActive, v) ==
    MatVec(SelectRows(T, tActive), MatVec(A, MatVec(xm.P, v)))

\* variant of Jtvec that takes the leading rows of T, as many as are active
JtvecValue_HeadRows(xm, A, T, tActive, w) ==
    MatVec(Transpose(xm.P),
           VecMat(MatVec(Transpose(HeadRows(T, Count(tActive, TRUE))), w), A))

\* P' . ((T[tActive, :]' . w)' . A)'
JtvecValue(xm, A, T, tActive, w) ==
    MatVec(Transpose(xm.P),
           VecMat(MatVec(Transpose(SelectRows(T, tActive)), w), A))

\* variant of the not-paired failure that drops the operators before raising
NotPaired_Reset(op, args) ==
    /\ ret' = Ret(op, args, "AssertionError", <<>>, None)
    /\ A_' = None
    /\ AisSet' = FALSE
    /\ T_' = None
    /\ TisSet' = FALSE

\* the call's name and argument, failed on the not-paired assertion
NotPaired(op, args) ==
    /\ ret' = Ret(op, args, "AssertionError", <<>>, None)
    /\ UNCHANGED <<A_, AisSet, T_, TisSet>>

\* an access that is not made
Skipped == [status |-> "ok", printed |-> <<>>, value |-> None,
            T |-> T_, set |-> TisSet]

\* the caches after the accesses gA and gT, and the call's outcome
Finish(op, args, gA, gT, printed, st, value) ==
    /\ A_' = gA.A
    /\ AisSet' = gA.set
    /\ T_' = gT.T
    /\ TisSet' = gT.set
    /\ ret' = Ret(op, args, st, printed, IF st = "ok" THEN Vector(value) ELSE None)

\* fields past its assertion: T is read, then A, then the products are taken
fieldsPaired(m, gT, gA) ==
    Finish("fields", <<m>>, gA, gT, gT.printed \o gA.printed,
           IF gA.status # "ok" THEN gA.status
           ELSE IF gA.value.nc # xiMap.P.nr \/ gT.value.nc # gA.value.nr
                THEN "ValueError"
           ELSE "ok",
           fieldsValue(xiMap, gA.value, gT.value, m))

\* prob.fields(m)
fields(m) ==
    /\ cls = "LinearVRM"
    /\ IF ~ispaired THEN NotPaired("fields", <<m>>)
       ELSE fieldsPaired(m, GetT, GetA)
    /\ UNCHANGED <<cls, survey, svProb, refFact, refRadius, indActive, indActiveDtype, xiMap>>

\* Jvec past its assertion: A is read and multiplied, then T is read
JvecPaired(v, gA, gT) ==
    Finish("Jvec", <<v>>, gA, gT, gA.printed \o gT.printed,
           IF gA.status # "ok" THEN gA.status
           ELSE IF gA.value.nc # xiMap.P.nr \/ gT.value.nc # gA.value.nr
                THEN "ValueError"
           ELSE "ok",
           JvecValue(xiMap, gA.value, gT.value, Surveys[survey].tActive, v))

\* the access to T that Jvec makes once A*v has been taken
JvecGetT(gA) ==
    IF gA.status = "ok" /\ gA.value.nc = xiMap.P.nr THEN GetT ELSE Skipped

\* prob.Jvec(m, v)
Jvec(m, v) ==
    /\ cls = "LinearVRM"
    /\ IF ~ispaired THEN NotPaired("Jvec", <<v>>)
       ELSE JvecPaired(v, GetA, JvecGetT(GetA))
    /\ UNCHANGED <<cls, survey, svProb, refFact, refRadius, indActive, indActiveDtype, xiMap>>

\* Jtvec past its assertion: T is read, then A, then P' is applied
JtvecPaired(w, gT, gA) ==
    Finish("Jtvec", <<w>>, gA, gT, gT.printed \o gA.printed,
           IF gA.status # "ok" THEN gA.status
           ELSE IF gT.value.nc # gA.value.nr \/ xiMap.P.nr # gA.value.nc
                THEN "ValueError"
           ELSE "ok",
           JtvecValue(xiMap, gA.value, gT.value, Surveys[survey].tActive, w))

\* prob.Jtvec(m, w)
Jtvec(m, w) ==
    /\ cls = "LinearVRM"
    /\ IF ~ispaired THEN NotPaired("Jtvec", <<w>>)
       ELSE JtvecPaired(w, GetT, GetA)
    /\ UNCHANGED <<cls, survey, svProb, refFact, refRadius, indActive, indActiveDtype, xiMap>>

\* the time rows of T of a survey, and the active ones
nTimeRows(sv) == Len(sv.tActive)
nActiveRows(sv) == Count(sv.tActive, TRUE)

-----------------------------------------------------------------------------
(* LogUniformVRM.fields.                                                   *)

\* the (source, receiver) pairs of a survey in the order of the two loops
SrcRxPairs(sv) ==
    Concat([pp \in 1..nSrc(sv) |->
              [qq \in 1..Len(sv.srcList[pp].rxList) |-> <<pp, qq>>]])

\* the index of A the loop body reads for source pp and receiver qq
LogFieldsBlock(pp, qq) == qq

\* the exception the loops end with, or "ok", given the blocks of A
LogFieldsError(sv, blocks, nCellVals) ==
    LET prs == SrcRxPairs(sv)
        bad(i) ==
            LET b == LogFieldsBlock(prs[i][1], prs[i][2])
            IN  IF b > Len(blocks) THEN "IndexError"
                ELSE IF blocks[b].nc # nCellVals THEN "ValueError"
                ELSE "ok"
        firstBad == {i \in 1..Len(prs) :
                        bad(i) # "ok" /\ \A k \in 1..(i - 1) : bad(k) = "ok"}
    IN  IF firstBad = {} THEN "ok" ELSE bad(CHOOSE i \in firstBad : TRUE)

\* np.hstack(f): per (source, receiver), mkvc((A[.] * eta).T)
LogFieldsValue(sv, blocks, chi0, dchi, tau1, tau2) ==
    LET prs == SrcRxPairs(sv)
    IN  Concat([i \in 1..Len(prs) |->
                  LET rxObj == sv.srcList[prs[i][1]].rxList[prs[i][2]]
                      eta == getLogUniformDecay(rxObj.fieldType, rxObj.times,
                                                chi0, dchi, tau1, tau2)
                  IN  Concat(MatMul(blocks[LogFieldsBlock(prs[i][1], prs[i][2])],
                                    eta).a)])

\* fields past its assertion: the loops read A and project each decay
fieldsLogPaired(args, sv, gA) ==
    /\ A_' = gA.A
    /\ AisSet' = gA.set
    /\ UNCHANGED <<T_, TisSet>>
    /\ IF gA.status # "ok"
       THEN ret' = Ret("fields", args, gA.status, gA.printed, None)
       ELSE IF LogFieldsError(sv, gA.value.items, xiMap.P.nr) # "ok"
       THEN ret' = Ret("fields", args,
                       LogFieldsError(sv, gA.value.items, xiMap.P.nr),
                       gA.printed, None)
       ELSE ret' = Ret("fields", args, "ok", gA.printed,
                       Vector(LogFieldsValue(sv, gA.value.items,
                                             MatVec(xiMap.P, args[1]),
                                             MatVec(xiMap.P, args[2]),
                                             MatVec(xiMap.P, args[3]),
                                             MatVec(xiMap.P, args[4]))))

\* prob.fields(m_chi0, m_dchi, m_tau1, m_tau2)
fieldsLog(m_chi0, m_dchi, m_tau1, m_tau2) ==
    /\ cls = "LogUniformVRM"
    /\ IF ~ispaired
       THEN NotPaired("fields", <<m_chi0, m_dchi, m_tau1, m_tau2>>)
       ELSE fieldsLogPaired(<<m_chi0, m_dchi, m_tau1, m_tau2>>,
                            Surveys[survey], GetA)
    /\ UNCHANGED <<cls, survey, svProb, refFact, refRadius, indActive, indActiveDtype, xiMap>>

-----------------------------------------------------------------------------

Next ==
    \/ \E d \in SurveyIds : pair(d)
    \/ unpair
    \/ \E Vec \in BoolArrays(Masks) : set_indActive(Vec)
    \/ \E mappingObj \in XiMaps : set_xiMap(mappingObj)
    \/ \E Val \in 0..MaxRefFact : set_refFact(Val)
    \/ \E Array \in RadiiSet : set_refRadius(Array)
    \/ AccessA
    \/ AccessT
    \/ \E m \in Vecs(xiMap.P.nc) : fields(m)
    \/ \E m \in {Zeros(xiMap.P.nc)}, v \in Vecs(xiMap.P.nc) : Jvec(m, v)
    \/ \E m \in {Zeros(xiMap.P.nc)},
          w \in Vecs(IF ispaired THEN nActiveRows(Surveys[survey]) ELSE 1) :
            Jtvec(m, w)
    \/ \E chi0 \in {Zeros(xiMap.P.nc)}, dchi \in Vecs(xiMap.P.nc) :
          fieldsLog(chi0, dchi, Zeros(xiMap.P.nc), [i \in 1..xiMap.P.nc |-> 1])

Spec == Init /\ [][Next]_vars

-----------------------------------------------------------------------------
(* Configuration: every construction the assertions of __init__ let        *)
(* through, then writes of any integer to refFact and of any array to      *)
(* indActive and refRadius, pairing and reads of A.                        *)

InitAny ==
    /\ cls \in {"LinearVRM", "LogUniformVRM"}
    /\ survey = 0
    /\ svProb = {}
    /\ refFact \in RefFacts
    /\ refRadius \in {DefaultRadii(refFact)} \cup RadiiSet
    /\ Len(refRadius) >= refFact
    /\ indActive \in AnyMasks
    /\ indActiveDtype = "bool"
    /\ xiMap = IdentityMap(Count(indActive, TRUE))
    /\ A_ = None
    /\ AisSet = FALSE
    /\ T_ = None
    /\ TisSet = FALSE
    /\ ret = Ret("init", <<>>, "ok", <<>>, None)

NextConfig ==
    \/ \E d \in SurveyIds : pair(d)
    \/ \E Val \in AnyRefFacts : set_refFact(Val)
    \/ \E Array \in RadiiSet : set_refRadius(Array)
    \/ \E Vec \in BoolArrays(AnyMasks) \cup {FloatArray} : set_indActive(Vec)
    \/ AccessA

SpecConfig == InitAny /\ [][NextConfig]_vars

-----------------------------------------------------------------------------
(* The kernel: one entry of _getGeometryMatrix, for a receiver point of     *)
(* component comp and cell j of the cells passed to the call.               *)

\* receiver points on and off the faces of the cells
KernelLocs == [1..3 -> {0, 1, CellWidth \div 2, CellWidth}]

\* cells passed to one call: the two first cells of the mesh, and a cell of
\* half the width next to a cell of the mesh
KernelCells ==
    { [c |-> <<gridCC(1), gridCC(2)>>, h |-> <<gridH(1), gridH(2)>>],
      [c |-> << <<CellWidth \div 4, CellWidth \div 4, -(CellWidth \div 4)>>,
                gridCC(2) >>,
       h |-> << <<CellWidth \div 2, CellWidth \div 2, CellWidth \div 2>>,
                gridH(2) >>] }

KernelEntry(comp, loc, cells, j) ==
    /\ ret' = Ret("_getGeometryMatrix", <<comp, loc, cells, j>>, "ok", <<>>,
                  [diffs |-> CornerDiffs(comp, loc, cells.c[j], cells.h[j],
                                         MinWidths(cells.h)),
                   self  |-> SelfTerms(comp,
                                CornerDiffs(comp, loc, cells.c[j], cells.h[j],
                                            MinWidths(cells.h)))])
    /\ UNCHANGED <<cls, survey, svProb, refFact, refRadius, indActive,
                   indActiveDtype, xiMap, A_, AisSet, T_, TisSet>>

NextKernel ==
    \E comp \in FieldComps, loc \in KernelLocs, cells \in KernelCells,
       j \in 1..2 :
        KernelEntry(comp, loc, cells, j)

\* a problem on the whole mesh, just constructed
InitKernel ==
    /\ Init
    /\ cls = "LinearVRM"
    /\ refFact = 0
    /\ refRadius = DefaultRadii(refFact)
    /\ indActive = [c \in Cells |-> TRUE]

SpecKernel == InitKernel /\ [][NextKernel]_vars

-----------------------------------------------------------------------------
(* Properties.  A step is recognised by the call it leaves in ret'; the    *)
(* unprimed variables are the state the call started from.                 *)

\* the calls that read A, and those that read T
AReads == {"A", "fields", "Jvec", "Jtvec"}
TReads == {"T", "fields", "Jvec", "Jtvec"}
Writes == {"indActive", "xiMap"}

tActiveNow == Surveys[survey].tActive

\* (C1) Adjoint consistency of LinearVRM: after a Jvec(m, v) that returned,
\* w . Jvec(m, v) = v . Jtvec(m, w) for every w with one entry per active time
\* row, and after a Jtvec(m, w) that returned, w . Jvec(m, v) = v . Jtvec(m, w)
\* for every v of the map's input size, with A, T and xiMap as stored.
C1_AdjointConsistency ==
    /\ (ret.op = "Jvec" /\ ret.status = "ok") =>
          \A w \in Vecs(nActiveRows(Surveys[survey])) :
             Dot(w, ret.value.v)
               = Dot(ret.args[1], JtvecValue(xiMap, A_, T_, tActiveNow, w))
    /\ (ret.op = "Jtvec" /\ ret.status = "ok") =>
          \A v \in Vecs(xiMap.P.nc) :
             Dot(ret.args[1], JvecValue(xiMap, A_, T_, tActiveNow, v))
               = Dot(v, ret.value.v)

\* a Jvec returned a non-zero vector through a map that is not the identity
C1_Witness ==
    /\ ret.op = "Jvec"
    /\ ret.status = "ok"
    /\ xiMap # IdentityMap(xiMap.P.nc)
    /\ \E i \in 1..Len(ret.value.v) : ret.value.v[i] # 0

C2_Step ==
    /\ ret.op = "init" => (A_ = None /\ T_ = None /\ ~AisSet /\ ~TisSet)
    /\ (ispaired /\ ~AisSet /\ ret'.op \in AReads) => Has(ret'.printed, MsgA)
    /\ (ispaired /\ AisSet /\ ret'.op \in AReads \cup TReads) =>
          /\ ~Has(ret'.printed, MsgA)
          /\ A_' = A_
          /\ AisSet'
          /\ ret'.op = "A" => (ret'.status = "ok" /\ ret'.value = A_)
    /\ (cls = "LinearVRM" /\ ispaired /\ ~TisSet /\ ret'.op = "T") =>
          ret'.printed = <<MsgT>>
    /\ (cls = "LinearVRM" /\ ispaired /\ TisSet
          /\ ret'.op \in AReads \cup TReads) =>
          /\ ~Has(ret'.printed, MsgT)
          /\ T_' = T_
          /\ TisSet'
          /\ ret'.op = "T" => (ret'.status = "ok" /\ ret'.value = T_)

\* (C2) Cache stability: nothing is assembled at construction; on a paired
\* problem the first read of A runs the geometry assembly, and once A is stored
\* every read of A (direct or through fields, Jvec, Jtvec) runs no assembly,
\* leaves the stored operator as it is and returns it; likewise T of LinearVRM
\* is assembled by its first read and returned unchanged by every later one.
C2_CacheStability == [][C2_Step]_vars

\* a direct read of A, and a fields call, served from the stored operators
C2_Witness ==
    /\ ret.op \in {"A", "fields"}
    /\ ret.status = "ok"
    /\ ret.pre.paired
    /\ ret.pre.AisSet
    /\ ret.printed = <<>>
    /\ A_ # None

C3_Step ==
    /\ (ret'.op \in Writes /\ ret'.status = "ok") => ~AisSet'
    /\ (ispaired /\ ~AisSet /\ ret'.op = "A") =>
          /\ ret'.printed = <<MsgA>>
          /\ ret'.status = "ok" =>
                /\ ret'.value =
                     StoredA(Assembled[survey, indActive, refFact,
                                       refRadius].blocks)
                /\ A_' = ret'.value
                /\ AisSet'
    /\ (~AisSet /\ ret'.op \in AReads /\ ret'.status = "ok") =>
          Has(ret'.printed, MsgA)

\* (C3) A write to indActive or xiMap clears _AisSet; the next read of A on
\* the paired problem runs the geometry assembly with the indActive then
\* current and returns (and stores) what it assembled, and no call returns a
\* result computed from the operator stored before the write.
C3_WriteInvalidatesA == [][C3_Step]_vars

\* a read of A that found an operator stored with its flag cleared, which only
\* a write leaves behind, and assembled anew
C3_Witness ==
    /\ ret.op = "A"
    /\ ret.status = "ok"
    /\ ret.pre.paired
    /\ ret.pre.hasA
    /\ ~ret.pre.AisSet
    /\ ret.printed = <<MsgA>>

\* (C4, as stated) A write to indActive or xiMap on a LinearVRM whose T is
\* cached invalidates the cached T.
C4_WriteInvalidatesT ==
    [][(cls = "LinearVRM" /\ TisSet /\ ret'.op \in Writes
          /\ ret'.status = "ok") => ~TisSet']_vars

C4_Step ==
    /\ (cls = "LinearVRM" /\ TisSet /\ ret'.op \in Writes) =>
          (TisSet' /\ T_' = T_)
    /\ (cls = "LinearVRM" /\ ispaired /\ TisSet /\ ret.op \in Writes
          /\ ret'.op = "T") =>
          (ret'.status = "ok" /\ ret'.printed = <<>> /\ ret'.value = T_
             /\ T_' = T_)

\* (C4, amended) A write to indActive or xiMap on a LinearVRM whose T is
\* cached keeps the cached T: _TisSet stays true and _T is untouched, and the
\* next read of T returns the operator cached before the write without
\* assembling.
C4_WriteKeepsT == [][C4_Step]_vars

\* a write has acted on a paired LinearVRM whose T was cached
C4_Witness ==
    /\ cls = "LinearVRM"
    /\ ret.op \in Writes
    /\ ret.status = "ok"
    /\ ret.pre.paired
    /\ ret.pre.TisSet
    /\ TisSet

C5_Step ==
    /\ (cls = "LinearVRM" /\ ispaired /\ ret'.op = "unpair") =>
          /\ survey' = 0
          /\ survey \notin svProb'
          /\ A_' = None
          /\ T_' = None
          /\ ~AisSet'
          /\ ~TisSet'
    /\ (cls = "LinearVRM" /\ ret'.op = "pair" /\ ret'.status = "ok") =>
          (~AisSet' /\ ~TisSet' /\ A_' = None /\ T_' = None)
    /\ (cls = "LinearVRM" /\ ret.op = "pair" /\ ret'.op = "A") =>
          /\ ret'.printed = <<MsgA>>
          /\ ret'.status = "ok" =>
                ret'.value = VStack(Assembled[survey, indActive, refFact,
                                              refRadius].blocks)
    /\ (cls = "LinearVRM" /\ ret.op = "pair" /\ ret'.op = "T") =>
          /\ ret'.printed = <<MsgT>>
          /\ ret'.value = AssembleT(Surveys[survey])

\* (C5) LinearVRM.unpair() on a paired problem leaves it unpaired, the former
\* survey without a reference to it, _A and _T None and both flags false; a
\* later pairing therefore finds nothing stored, and the first read of A or T
\* after it assembles the operator from the survey then paired.
C5_LinearUnpair == [][C5_Step]_vars

\* unpair has acted on a paired LinearVRM that had both operators stored
C5_Witness ==
    /\ cls = "LinearVRM"
    /\ ret.op = "unpair"
    /\ ret.pre.paired
    /\ ret.pre.AisSet
    /\ ret.pre.TisSet
    /\ survey = 0
    /\ A_ = None

\* the lists of blocks _getAMatricies can return for a survey
BlocksOf ==
    [sv \in SurveyIds |->
        {Assembled[sv, ia, rf, rr].blocks :
            <<ia, rf, rr>> \in
               {x \in Masks \X (0..MaxRefFact) \X AllRadii :
                   Assembled[sv, x[1], x[2], x[3]].err = "ok"}}] @@ <<>>

C7_Step ==
    (~ispaired /\ ret'.op \in {"fields", "Jvec", "Jtvec"}) =>
        /\ ret'.status = "AssertionError"
        /\ ret'.printed = <<>>
        /\ ret'.value = None
        /\ UNCHANGED <<A_, AisSet, T_, TisSet>>

\* (C7) On a problem that is not paired, LinearVRM.fields, Jvec, Jtvec and
\* LogUniformVRM.fields fail with the not-paired assertion: nothing is
\* assembled, nothing is returned, and _A, _T and both flags are unchanged.
C7_UnpairedCallsFail == [][C7_Step]_vars

\* a call failed on an unpaired problem that still holds a stored A
C7_Witness ==
    /\ ret.op \in {"fields", "Jvec", "Jtvec"}
    /\ ret.status = "AssertionError"
    /\ ~ret.pre.paired
    /\ ret.pre.hasA
    /\ A_ # None

C9_FieldsAndJvec ==
    /\ (cls = "LinearVRM" /\ ret.op = "fields" /\ ret.status = "ok") =>
          /\ ret.value.v = MatVec(MatMul(T_, A_), MatVec(xiMap.P, ret.args[1]))
          /\ Len(ret.value.v) = T_.nr
    /\ (ret.op = "Jvec" /\ ret.status = "ok") =>
          /\ ret.value.v =
               Select(MatVec(MatMul(T_, A_), MatVec(xiMap.P, ret.args[1])),
                      tActiveNow)
          /\ xiMap = IdentityMap(xiMap.P.nc) =>
                ret.value.v =
                   Select(fieldsValue(xiMap, A_, T_, ret.args[1]), tActiveNow)

\* a Jvec through the identity map returned a vector with a non-zero entry
\* for a survey whose inactive time row is not the last
C9_Witness ==
    /\ ret.op = "Jvec"
    /\ ret.status = "ok"
    /\ xiMap = IdentityMap(xiMap.P.nc)
    /\ ~tActiveNow[1]
    /\ \E i \in 1..Len(ret.value.v) : ret.value.v[i] # 0

\* (C10) For LinearVRM, fields(m) of the all-zero model that returns is the
\* all-zero vector with one entry per row of T.
C10_ZeroModelZeroFields ==
    (cls = "LinearVRM" /\ ret.op = "fields" /\ ret.status = "ok"
       /\ ret.args[1] = Zeros(Len(ret.args[1])))
      => (ret.value.v = Zeros(T_.nr) /\ T_.nr = nTimeRows(Surveys[survey]))

\* fields of the zero model returned on a refined, partly active problem
\* whose A has a non-zero entry
C10_Witness ==
    /\ cls = "LinearVRM"
    /\ ret.op = "fields"
    /\ ret.status = "ok"
    /\ ret.args[1] = Zeros(Len(ret.args[1]))
    /\ refFact > 0
    /\ Count(indActive, FALSE) > 0
    /\ \E i \in 1..A_.nr : \E j \in 1..A_.nc : A_.a[i][j] # 0

\* the fields of the log-uniform law with every receiver of source pp
\* projected through the block at position pp
FieldsThroughSourceBlocks(sv, blocks, chi0, dchi, tau1, tau2) ==
    Concat([i \in 1..Len(SrcRxPairs(sv)) |->
              Concat(MatMul(
                  blocks[SrcRxPairs(sv)[i][1]],
                  getLogUniformDecay(
                      sv.srcList[SrcRxPairs(sv)[i][1]]
                        .rxList[SrcRxPairs(sv)[i][2]].fieldType,
                      sv.srcList[SrcRxPairs(sv)[i][1]]
                        .rxList[SrcRxPairs(sv)[i][2]].times,
                      chi0, dchi, tau1, tau2)).a)])

\* (C11) LogUniformVRM.fields on a paired problem whose A it has just
\* assembled, with a map that fits the active cells, returns the decays of the
\* receivers of every source pp projected through block pp of A, in
\* source-then-receiver order.
C11_FieldsThroughSourceBlock ==
    (cls = "LogUniformVRM" /\ ret.op = "fields" /\ ret.pre.paired
       /\ ret.printed = <<MsgA>> /\ AisSet
       /\ xiMap.P.nr = Count(indActive, TRUE))
      => /\ ret.status = "ok"
         /\ ret.value.v =
              FieldsThroughSourceBlocks(
                  Surveys[survey], A_.items,
                  MatVec(xiMap.P, ret.args[1]), MatVec(xiMap.P, ret.args[2]),
                  MatVec(xiMap.P, ret.args[3]), MatVec(xiMap.P, ret.args[4]))

\* the A of the state was assembled by the access that has just returned
JustAssembled ==
    /\ ret.op = "A" /\ ret.status = "ok" /\ ret.printed = <<MsgA>>
    /\ AisSet /\ A_ = ret.value

\* the blocks _getAMatricies returns in the current state
BlocksNow == Assembled[survey, indActive, refFact, refRadius].blocks

\* B is a dense matrix of nr rows and nc columns
HasShape(B, nr, nc) ==
    /\ B.nr = nr /\ B.nc = nc /\ Len(B.a) = nr
    /\ \A i \in 1..nr : Len(B.a[i]) = nc

\* the rows of A before those of source pp
RowOffset(sv, pp) == SumSeq([p \in 1..(pp - 1) |-> nRx(sv.srcList[p])])

\* the blocks a stored A is made of
StoredBlocks(sv) ==
    IF cls = "LinearVRM"
    THEN [pp \in 1..nSrc(sv) |->
            [i \in 1..nRx(sv.srcList[pp]) |-> A_.a[RowOffset(sv, pp) + i]]]
    ELSE [pp \in 1..Len(A_.items) |-> A_.items[pp].a]

\* (C12, as stated) every per-source block of A has one row per receiver
\* location of the source and 3 x (number of active cells) columns.
C12_BlockHasThreeColumnsPerCell ==
    JustAssembled =>
        \A pp \in 1..Len(BlocksNow) :
            HasShape(BlocksNow[pp], nRx(Surveys[survey].srcList[pp]),
                     3 * Count(indActive, TRUE))

\* (C12, amended) every per-source block of A has one row per receiver
\* location of the source, whatever the number of time channels, and one
\* column per active cell; there is one block per source, the A of LinearVRM
\* is the blocks stacked in source order and the A of LogUniformVRM is the
\* list of the blocks.
C12_BlockShapeAndStack ==
    JustAssembled =>
        /\ Len(BlocksNow) = nSrc(Surveys[survey])
        /\ \A pp \in 1..Len(BlocksNow) :
              HasShape(BlocksNow[pp], nRx(Surveys[survey].srcList[pp]),
                       Count(indActive, TRUE))
        /\ cls = "LinearVRM" =>
              HasShape(A_, RowOffset(Surveys[survey], nSrc(Surveys[survey]) + 1),
                       Count(indActive, TRUE))
        /\ cls = "LogUniformVRM" => Len(A_.items) = nSrc(Surveys[survey])
        /\ StoredBlocks(Surveys[survey])
             = [pp \in 1..Len(BlocksNow) |-> BlocksNow[pp].a]

\* a LinearVRM has stacked the blocks of two sources over all cells, and the
\* first source's block differs from the second's
C12_Witness ==
    /\ JustAssembled /\ cls = "LinearVRM" /\ survey = 2
    /\ Count(indActive, TRUE) = NumCells
    /\ A_.nr = 2
    /\ A_.a[1] # A_.a[2]

\* the T of the state was assembled by the access that has just returned
JustAssembledT ==
    /\ ret.op = "T" /\ ret.status = "ok" /\ ret.printed = <<MsgT>>
    /\ TisSet /\ T_ = ret.value

\* the k-th receiver of the survey in source-then-receiver order
PairRx(sv, k) ==
    sv.srcList[SrcRxPairs(sv)[k][1]].rxList[SrcRxPairs(sv)[k][2]]

\* the rows and the columns of T before the block of the k-th receiver
TRowOffset(sv, k) ==
    SumSeq([p \in 1..(k - 1) |->
              Len(PairRx(sv, p).locs) * Len(PairRx(sv, p).times)])
TColOffset(sv, k) == SumSeq([p \in 1..(k - 1) |-> Len(PairRx(sv, p).locs)])

\* the receiver, location and time channel of row r and column c of T, if
\* the entry lies in a diagonal block and on the block's kron pattern
TBlockEntries(sv, r, c) ==
    {e \in [k : 1..Len(SrcRxPairs(sv)), i : 1..NumCells + 2, t : 1..2] :
        /\ e.i <= Len(PairRx(sv, e.k).locs)
        /\ e.t <= Len(PairRx(sv, e.k).times)
        /\ r = TRowOffset(sv, e.k) + (e.i - 1) * Len(PairRx(sv, e.k).times) + e.t
        /\ c = TColOffset(sv, e.k) + e.i}

\* (C13, as stated) the decay operator T of LinearVRM has one column per cell.
C13_ColumnsAreCells == JustAssembledT => T_.nc = NumCells

\* (C13, amended) the decay operator T of LinearVRM is block-diagonal with one
\* block per (source, receiver) pair in source-then-receiver order, the block
\* of a receiver holding its characteristic decay once per location; T has one
\* row per time channel and location of every receiver and one column per
\* receiver location (the rows of A), not one per cell.
C13_BlockDiagonalDecay ==
    JustAssembledT =>
        /\ HasShape(T_,
                    TRowOffset(Surveys[survey], Len(SrcRxPairs(Surveys[survey])) + 1),
                    TColOffset(Surveys[survey], Len(SrcRxPairs(Surveys[survey])) + 1))
        /\ T_.nc = SumSeq([pp \in 1..nSrc(Surveys[survey]) |->
                             nRx(Surveys[survey].srcList[pp])])
        /\ \A r \in 1..T_.nr, c \in 1..T_.nc :
              /\ Cardinality(TBlockEntries(Surveys[survey], r, c)) <= 1
              /\ \A e \in TBlockEntries(Surveys[survey], r, c) :
                    T_.a[r][c] =
                        getCharDecay(PairRx(Surveys[survey], e.k).fieldType,
                                     PairRx(Surveys[survey], e.k).times)[e.t]
              /\ TBlockEntries(Surveys[survey], r, c) = {} => T_.a[r][c] = 0

\* T assembled for a source with a receiver of two time channels and a
\* receiver of two locations: three columns on a mesh of fewer cells
C13_Witness ==
    /\ JustAssembledT /\ survey = 1
    /\ T_.nr = 4 /\ T_.nc = 3
    /\ T_.a[2][1] # 0 /\ T_.a[4][3] # 0 /\ T_.a[3][1] = 0

\* (C14) In every state reached by construction and writes to refFact and
\* refRadius, refRadius has at least refFact entries.
C14_RadiiCoverRefFact == Len(refRadius) >= refFact

\* a write of Val to refFact
C15_Step ==
    /\ refFact >= 0
    /\ refFact' >= 0
    /\ (ret'.op = "refFact" /\ ret'.args[1] < 0)
         => /\ ret'.status = "AssertionError"
            /\ ret'.printed = <<>>
            /\ refFact' = refFact

C16_WriteValidatesWrittenValue ==
    /\ IsBooleanArray(NdArray(indActiveDtype, indActive))
    /\ (ret.op = "indActive" /\ ~IsBooleanArray(ret.args[1]))
         => ret.status = "AssertionError"

\* (C17) In every reachable state the stored active mask has one entry per
\* cell of the mesh.
C17_MaskHasMeshLength == Len(indActive) = NumCells

\* (C18) In every reachable state refFact is at most the cap of 4.
C18_RefFactWithinCap == refFact <= RefFactCap

\* the flags of the active cells for source pp in the current state
FlagsNow(pp) ==
    getRefineFlags(Surveys[survey].srcList[pp], ActiveCC(indActive),
                   refFact, refRadius) \o <<>>

\* the levels 1..rf whose assignment in line 357 writes column j
LevelsWriting(flags, rf, j) == {qq \in 1..rf : LevelMask(flags, qq)[j]}

\* the columns of the block rows of one source, cell by cell: base is G*H0 on
\* the unrefined cells
ColumnsByLevel(rows, xyzc, xyzh, srcObj, rf, flags, base) ==
    \A j \in 1..Len(xyzc) :
        /\ flags[j] \in 0..rf
        /\ flags[j] = 0 =>
              /\ LevelsWriting(flags, rf, j) = {}
              /\ \A i \in 1..Len(rows) : rows[i][j] = base.a[i][j]
        /\ flags[j] > 0 =>
              /\ LevelsWriting(flags, rf, j) = {flags[j]}
              /\ \A i \in 1..Len(rows) :
                    rows[i][j] =
                        getSubsetAcolumns(xyzc, xyzh, srcObj, flags[j], flags)
                          .a[i][Count(SubSeq(LevelMask(flags, flags[j]), 1, j),
                                      TRUE)]

SubCellCentre(c, h, n, t) ==
    [k \in 1..3 |-> (c[k] - h[k] \div 2)
                    + ((h[k] \div n) * SubOffsets(n)[t][k]) \div 2]

\* the sum over the n^3 sub-cells of one parent cell of the sub-cell's G*H0
\* column, row by row
ParentColumn(c, h, srcObj, n) ==
    [i \in 1..nRx(srcObj) |->
        SumSeq([t \in 1..(n * n * n) |->
                  GeometryH0(<<SubCellCentre(c, h, n, t)>>,
                             <<[k \in 1..3 |-> h[k] \div n]>>,
                             srcObj).a[i][1]])]

\* the columns cols are, in order, the parent columns of the cells cs, hs
ColumnsOfParents(cols, cs, hs, srcObj, n) ==
    /\ HasShape(cols, nRx(srcObj), Len(cs))
    /\ \A m \in 1..Len(cs) :
          [i \in 1..nRx(srcObj) |-> cols.a[i][m]]
            = ParentColumn(cs[m], hs[m], srcObj, n)

\* (C20) For every source and every level qq of an assembly that returned,
\* _getSubsetAcolumns returns one column per cell flagged qq, in the order of
\* the cells, and column i is the sum of the G*H0 columns of the (2^qq)^3
\* sub-cells of the i-th flagged cell and of no other cell.
C20_SubsetColumnsPerParent ==
    (JustAssembled /\ refFact >= 1) =>
        \A pp \in 1..nSrc(Surveys[survey]), qq \in 1..refFact :
            ColumnsOfParents(
                getSubsetAcolumns(ActiveCC(indActive), ActiveH(indActive),
                                  Surveys[survey].srcList[pp], qq, FlagsNow(pp)),
                Select(ActiveCC(indActive), LevelMask(FlagsNow(pp), qq)),
                Select(ActiveH(indActive), LevelMask(FlagsNow(pp), qq)),
                Surveys[survey].srcList[pp], Pow2(qq))

\* an assembly in which two cells are refined at level 1 for the first source,
\* with different columns
C20_Witness ==
    /\ JustAssembled /\ refFact >= 1
    /\ Count(LevelMask(FlagsNow(1), 1), TRUE) >= 2
    /\ StoredBlocks(Surveys[survey])[1][1][1]
         # StoredBlocks(Surveys[survey])[1][1][2]

\* the centres and the widths of the sub-cells _getSubsetAcolumns makes of
\* the cells flagged qq for source pp in the current state
SubCentersNow(pp, qq) ==
    SubCenters(Select(ActiveCC(indActive), LevelMask(FlagsNow(pp), qq)),
               Select(ActiveH(indActive), LevelMask(FlagsNow(pp), qq)),
               Pow2(qq), Pow2(qq) * Pow2(qq) * Pow2(qq), SubOffsets(Pow2(qq)))
SubWidthsNow(pp, qq) ==
    SubWidths(Select(ActiveH(indActive), LevelMask(FlagsNow(pp), qq)),
              Pow2(qq), Pow2(qq) * Pow2(qq) * Pow2(qq))

\* the centres (c - h/2) + (h/n)(k - 1/2) for every k in 1..n per axis
GridCentres(c, h, n) ==
    {[a \in 1..3 |-> (c[a] - h[a] \div 2)
                     + ((h[a] \div n) * (2 * k[a] - 1)) \div 2] :
        k \in [1..3 -> 1..n]}

\* the sub-cells centres[lo + 1 .. lo + n^3] of widths widths[..] split the
\* cell of centre c and widths h into n^3 equal parts
SplitsParent(centres, widths, lo, c, h, n) ==
    /\ \A t \in 1..(n * n * n), a \in 1..3 :
          /\ widths[lo + t][a] * n = h[a]
          /\ centres[lo + t][a] - widths[lo + t][a] \div 2 >= c[a] - h[a] \div 2
          /\ centres[lo + t][a] + widths[lo + t][a] \div 2 <= c[a] + h[a] \div 2
    /\ {centres[lo + t] : t \in 1..(n * n * n)} = GridCentres(c, h, n)
    /\ Cardinality(GridCentres(c, h, n)) = n * n * n
    /\ \A t, u \in 1..(n * n * n) :
          t # u => \E a \in 1..3 :
                      \/ centres[lo + t][a] - centres[lo + u][a] >= widths[lo + t][a]
                      \/ centres[lo + u][a] - centres[lo + t][a] >= widths[lo + t][a]
    /\ (n * n * n) * (h[1] \div n) * (h[2] \div n) * (h[3] \div n)
         = h[1] * h[2] * h[3]

\* (C21) For every source and level qq of an assembly that returned, every
\* cell flagged qq, of centre c and widths h, yields n^3 sub-cells (n = 2^qq) of
\* widths h/n whose centres are (c - h/2) + (h/n)(k - 1/2) for every
\* combination of k in 1..n per axis, each once; the sub-cells lie inside the
\* parent, do not overlap pairwise and fill its volume.
C21_SubCellsSplitParent ==
    (JustAssembled /\ refFact >= 1) =>
        \A pp \in 1..nSrc(Surveys[survey]), qq \in 1..refFact :
            /\ Len(SubCentersNow(pp, qq))
                 = Count(LevelMask(FlagsNow(pp), qq), TRUE)
                   * Pow2(qq) * Pow2(qq) * Pow2(qq)
            /\ Len(SubWidthsNow(pp, qq)) = Len(SubCentersNow(pp, qq))
            /\ \A m \in 1..Count(LevelMask(FlagsNow(pp), qq), TRUE) :
                  SplitsParent(
                      SubCentersNow(pp, qq), SubWidthsNow(pp, qq),
                      (m - 1) * Pow2(qq) * Pow2(qq) * Pow2(qq),
                      Select(ActiveCC(indActive), LevelMask(FlagsNow(pp), qq))[m],
                      Select(ActiveH(indActive), LevelMask(FlagsNow(pp), qq))[m],
                      Pow2(qq))

\* an assembly that split the second cell of the mesh for the first source
\* into sub-cells at the top level
C21_Witness ==
    /\ JustAssembled /\ refFact >= 1 /\ indActive = AllActive
    /\ FlagsNow(1)[2] = refFact
    /\ Len(SubCentersNow(1, refFact)) >= 2 * Pow2(refFact) * Pow2(refFact) * Pow2(refFact)
    /\ SubCentersNow(1, refFact)[1] # SubCentersNow(1, refFact)[2]

\* the (source, receiver, location) triples of a survey: sources in order,
\* then receivers in order, then locations in order
Triples(sv) ==
    Concat([pp \in 1..nSrc(sv) |->
              Concat([qq \in 1..Len(sv.srcList[pp].rxList) |->
                        [l \in 1..Len(sv.srcList[pp].rxList[qq].locs) |->
                            [pp |-> pp, qq |-> qq, l |-> l]]])])

\* source pp of the survey with the one receiver location of triple e, its
\* tag read as the component it names
SourceOfTriple(sv, e) ==
    [sv.srcList[e.pp] EXCEPT
        !.rxList = << [sv.srcList[e.pp].rxList[e.qq] EXCEPT
                          !.locs = << sv.srcList[e.pp].rxList[e.qq].locs[e.l] >>,
                          !.literal = TRUE] >>]

\* the geometry row of triple e for the stored configuration
RowOfTriple(sv, e) ==
    SourceBlock(ActiveCC(indActive), ActiveH(indActive), SourceOfTriple(sv, e),
                refFact, refRadius).a[1]

\* the number of the receiver of triple e in source-then-receiver order
PairOfTriple(sv, e) ==
    CHOOSE k \in 1..Len(SrcRxPairs(sv)) : SrcRxPairs(sv)[k] = <<e.pp, e.qq>>

\* the rows of T that belong to triple e, one per time channel
TRowsOfTriple(sv, e) ==
    {TRowOffset(sv, PairOfTriple(sv, e))
       + (e.l - 1) * Len(PairRx(sv, PairOfTriple(sv, e)).times) + t :
        t \in 1..Len(PairRx(sv, PairOfTriple(sv, e)).times)}

\* a LinearVRM whose fields call has just assembled A and returned
FieldsJustAssembled ==
    /\ cls = "LinearVRM" /\ ret.op = "fields" /\ ret.status = "ok"
    /\ Has(ret.printed, MsgA) /\ AisSet /\ TisSet

\* (C22) After a fields call of LinearVRM that assembled A, T has as many
\* columns as A has rows, and for every c, row c of A is the geometry row of
\* the c-th (source, receiver, location) triple and column c of T is non-zero
\* exactly on the time rows of that triple.
C22_DecayMeetsOwnGeometry ==
    FieldsJustAssembled =>
        /\ T_.nc = A_.nr
        /\ A_.nr = Len(Triples(Surveys[survey]))
        /\ \A c \in 1..A_.nr :
              /\ A_.a[c] = RowOfTriple(Surveys[survey], Triples(Surveys[survey])[c])
              /\ {r \in 1..T_.nr : T_.a[r][c] # 0}
                   = TRowsOfTriple(Surveys[survey], Triples(Surveys[survey])[c])

\* every (receiver, location) pair of a source, in receiver order and then
\* location order
RxLocPairs(srcObj) ==
    Concat([q \in 1..Len(srcObj.rxList) |->
              [r \in 1..Len(srcObj.rxList[q].locs) |->
                  [comp |-> srcObj.rxList[q].fieldComp,
                   loc  |-> srcObj.rxList[q].locs[r]]]])

\* (C27) In an assembly that returned, for every source the rows of G are
\* written by all the (receiver, location) pairs of the source, one row each,
\* in receiver order and then location order, and none of the K rows is left
\* unwritten.
C27_EveryPairWritesItsRow ==
    JustAssembled =>
        \A pp \in 1..nSrc(Surveys[survey]) :
            /\ GeometryRows(Surveys[survey].srcList[pp])
                 = RxLocPairs(Surveys[survey].srcList[pp])
            /\ Len(GeometryRows(Surveys[survey].srcList[pp]))
                 = nRx(Surveys[survey].srcList[pp])

\* an access to A that ran the assembly, whatever its outcome
AssemblyRan == ret.op = "A" /\ ret.pre.paired /\ ~ret.pre.AisSet

\* (C23) An assembly with refFact >= 1, at least refFact radii and at least
\* one active cell completes without error, whatever levels the flags of the
\* cells take, and leaves every column at the value of the cell's own level.
C23_AssemblyCompletes ==
    (AssemblyRan /\ refFact >= 1 /\ Len(refRadius) >= refFact
       /\ Count(indActive, TRUE) >= 1)
      => /\ ret.status = "ok"
         /\ \A pp \in 1..nSrc(Surveys[survey]) :
               ColumnsByLevel(StoredBlocks(Surveys[survey])[pp],
                              ActiveCC(indActive), ActiveH(indActive),
                              Surveys[survey].srcList[pp], refFact, FlagsNow(pp),
                              GeometryH0(ActiveCC(indActive), ActiveH(indActive),
                                         Surveys[survey].srcList[pp]))

\* (C24) Whenever an access to A of a paired LinearVRM returns the cached
\* operator, that operator is what the assembly produces from the current
\* refFact, refRadius, indActive and survey.
C24_CachedAIsCurrent ==
    (cls = "LinearVRM" /\ ret.op = "A" /\ ret.status = "ok"
       /\ ret.printed = <<>> /\ ispaired
       /\ Assembled[survey, indActive, refFact, refRadius].err = "ok")
      => ret.value = StoredA(BlocksNow)

\* the stored A is the complete operator of some configuration
CompleteA ==
    \E sv \in SurveyIds, ia \in Masks, rf \in 0..MaxRefFact, rr \in AllRadii :
        /\ Assembled[sv, ia, rf, rr].err = "ok"
        /\ A_ = StoredA(Assembled[sv, ia, rf, rr].blocks)

\* the stored T is the complete operator of some survey
CompleteT == \E sv \in SurveyIds : T_ = AssembleT(Surveys[sv])

\* (C25) In every reachable state, if the A flag is true a completely
\* assembled A is stored and if the T flag is true a completely assembled T is
\* stored; an access to A or T that ends in an error, and every call whose
\* assembly of A raised, leaves the flag false.
C25_FlagMeansAssembled ==
    /\ AisSet => (A_ # None /\ CompleteA)
    /\ TisSet => (T_ # None /\ CompleteT)
    /\ (ret.op = "A" /\ ret.status # "ok") => ~AisSet
    /\ (ret.op = "T" /\ ret.status # "ok") => ~TisSet
    /\ (ret.op \in AReads /\ ~ret.pre.AisSet
          /\ (~ret.pre.paired \/ AMatricies.err # "ok")) => ~AisSet

\* an assembly failed after an operator had been stored: the operator is gone
\* and the flag is false
C25_Witness ==
    /\ ret.op = "A" /\ ret.status = "ValueError" /\ ret.pre.hasA
    /\ A_ = None /\ ~AisSet

\* (C26) For a problem created without an explicit xiMap, after every write of
\* a boolean array of mesh.nC entries to indActive the identity map has as
\* many parameters as indActive has True entries.
C26_DefaultMapFitsMask ==
    (ret.op = "indActive" /\ ret.status = "ok"
       /\ indActiveDtype = "bool" /\ Len(indActive) = NumCells)
      => xiMap = IdentityMap(Count(indActive, TRUE))

\* (C30) An assembly with refFact = 0 fails only where the unrefined geometry
\* matrix fails (no active cell), whatever refRadius holds, and when it
\* returns every per-source block is G*H0 on the active cells.
C30_LevelZeroIsUnrefined ==
    (AssemblyRan /\ refFact = 0) =>
        /\ ret.status = "ok"
             <=> \A pp \in 1..nSrc(Surveys[survey]) :
                    ~GeometryFails(ActiveCC(indActive), Surveys[survey].srcList[pp])
        /\ ret.status = "ok" =>
              /\ JustAssembled
              /\ \A pp \in 1..nSrc(Surveys[survey]) :
                    StoredBlocks(Surveys[survey])[pp]
                      = GeometryH0(ActiveCC(indActive), ActiveH(indActive),
                                   Surveys[survey].srcList[pp]).a

\* an assembly with refFact = 0 returned the unrefined blocks although the
\* stored radii would refine a cell, to other values, with refFact = 1
C30_Witness ==
    /\ JustAssembled /\ refFact = 0 /\ Len(refRadius) >= 1
    /\ Assembled[survey, indActive, 1, refRadius].err = "ok"
    /\ ret.value # StoredA(Assembled[survey, indActive, 1, refRadius].blocks)

\* the call of _getGeometryMatrix whose entry ret holds
KernelCall == ret.op = "_getGeometryMatrix"

\* the smallest width along axis a of the cells of the call
LeastWidth(cells, a) ==
    CHOOSE w \in {cells.h[j][a] : j \in 1..Len(cells.h)} :
        \A j \in 1..Len(cells.h) : cells.h[j][a] >= w

\* the difference d nudged by s*w/1000 if it is zero and unchanged otherwise
Nudged(d, s, w) == IF d = 0 THEN Length(0, s * w) ELSE Length(d, 0)

\* the corner differences of receiver point loc and cell j of cells under the
\* policy: lower corners move by +w/1000, upper corners by -w/1000
PolicyDiffs(loc, cells, j) ==
    [u1 |-> Nudged(loc[1] - (cells.c[j][1] - cells.h[j][1] \div 2), 1,
                   LeastWidth(cells, 1)),
     u2 |-> Nudged(loc[1] - (cells.c[j][1] + cells.h[j][1] \div 2), -1,
                   LeastWidth(cells, 1)),
     v1 |-> Nudged(loc[2] - (cells.c[j][2] - cells.h[j][2] \div 2), 1,
                   LeastWidth(cells, 2)),
     v2 |-> Nudged(loc[2] - (cells.c[j][2] + cells.h[j][2] \div 2), -1,
                   LeastWidth(cells, 2)),
     w1 |-> Nudged(loc[3] - (cells.c[j][3] - cells.h[j][3] \div 2), 1,
                   LeastWidth(cells, 3)),
     w2 |-> Nudged(loc[3] - (cells.c[j][3] + cells.h[j][3] \div 2), -1,
                   LeastWidth(cells, 3))]

\* (C28) For every receiver point, cell and axis, a zero corner difference
\* becomes +w/1000 at the lower corner and -w/1000 at the upper corner, w the
\* smallest width along the axis over the cells of the call, every other
\* difference is unchanged, no difference is zero afterwards, and the three
\* receiver components give the same differences.
C28_NudgeAwayFromZero ==
    KernelCall =>
        /\ ret.value.diffs = PolicyDiffs(ret.args[2], ret.args[3], ret.args[4])
        /\ \A f \in DOMAIN ret.value.diffs :
              ret.value.diffs[f].len * NudgeDivisor + ret.value.diffs[f].nudge # 0
        /\ \A comp \in FieldComps :
              CornerDiffs(comp, ret.args[2], ret.args[3].c[ret.args[4]],
                          ret.args[3].h[ret.args[4]], MinWidths(ret.args[3].h))
                = ret.value.diffs

\* a receiver point on the lower x face and the upper y face of a mesh cell
\* passed together with a cell of half its width: both differences are nudged
\* by the smaller width, not the cell's own, to opposite sides
C28_Witness ==
    /\ KernelCall
    /\ ret.args[4] = 2
    /\ ret.args[3].h[2] = <<CellWidth, CellWidth, CellWidth>>
    /\ ret.value.diffs.u1 = Length(0, CellWidth \div 2)
    /\ ret.value.diffs.v2 = Length(0, -(CellWidth \div 2))
    /\ ret.value.diffs.w2 = Length(1, 0)

\* the terms with their signs reversed
Negated(terms) ==
    [i \in 1..Len(terms) |-> [terms[i] EXCEPT !.sign = -terms[i].sign]]

\* the sum of the signs of the terms equal to t up to sign
SignSum(terms, t) ==
    SumSeq([i \in 1..Len(terms) |->
              IF [terms[i] EXCEPT !.sign = 1] = [t EXCEPT !.sign = 1]
              THEN terms[i].sign ELSE 0])

\* the corner differences of the three branches for the point and cell of
\* the call
DiffsX == CornerDiffsX(ret.args[2], ret.args[3].c[ret.args[4]],
                       ret.args[3].h[ret.args[4]], MinWidths(ret.args[3].h))
DiffsY == CornerDiffsY(ret.args[2], ret.args[3].c[ret.args[4]],
                       ret.args[3].h[ret.args[4]], MinWidths(ret.args[3].h))
DiffsZ == CornerDiffsZ(ret.args[2], ret.args[3].c[ret.args[4]],
                       ret.args[3].h[ret.args[4]], MinWidths(ret.args[3].h))

\* (C29) For the same cell and receiver point, the sixteen arctan terms of
\* Gzz are the eight terms of Gxx, each negated, followed by the eight terms of
\* Gyy, each negated, so that in Gxx + Gyy + Gzz the signs of every term add
\* up to zero.
C29_GzzIsMinusGxxMinusGyy ==
    KernelCall =>
        /\ GzzTerms(DiffsZ)
             = Negated(GxxTerms(DiffsX)) \o Negated(GyyTerms(DiffsY))
        /\ Len(GxxTerms(DiffsX)) = 8 /\ Len(GyyTerms(DiffsY)) = 8
        /\ \A i \in 1..16 :
              SignSum(GxxTerms(DiffsX) \o GyyTerms(DiffsY) \o GzzTerms(DiffsZ),
                      GzzTerms(DiffsZ)[i]) = 0
        /\ ret.args[1] = "z" => ret.value.self = GzzTerms(DiffsZ)

\* Gzz evaluated for a receiver point on a face of the cell, with sixteen
\* terms of which the first is minus the first term of Gxx
C29_Witness ==
    /\ KernelCall /\ ret.args[1] = "z"
    /\ Len(ret.value.self) = 16
    /\ ret.value.self[1].sign = -1
    /\ ret.value.self[1].den = Length(0, CellWidth)
    /\ ret.value.self[9].den = Length(1, 0)

====
